---- MODULE Spec2Model ----
(***************************************************************************)
(* A model of generator-oada, the yeoman generator that scaffolds an OADA  *)
(* library.  Two variants of the generator are modelled: "app" is          *)
(* src/app/index.js, "old" is src/unnamed/part_000.                        *)
(*                                                                         *)
(* JavaScript values.  A string the code takes apart with a regular        *)
(* expression (a library name, a path, a URL, a credential) is a sequence  *)
(* of one-character strings; other strings are opaque.  A value that may   *)
(* be undefined is a sequence of length at most one: <<>> is undefined,    *)
(* <<v>> is the value v.                                                   *)
(***************************************************************************)
EXTENDS Integers, Sequences, FiniteSets, TLC

\* ---------------------------------------------------------------- bounds

\* Longest free part of a library name the name specification draws.
MaxNameLen == 3
\* Longest credential the credential specification draws.
MaxCredLen == 4
\* Runs of the generator in the same destination directory.
MaxRuns == 2

\* ------------------------------------------------------- strings as data

BSeq(S, n) == UNION {[1..k -> S] : k \in 0..n}

Undef == <<>>
Some(v) == <<v>>
IsDef(o) == o # <<>>
Val(o) == o[1]

S_node == <<"n", "o", "d", "e", "-">>
S_dotjs == <<".", "j", "s">>
S_dashjs == <<"-", "j", "s">>
S_js == <<"j", "s">>
S_git == <<"g", "i", "t">>

HasPrefix(s, p) == Len(s) >= Len(p) /\ SubSeq(s, 1, Len(p)) = p
HasSuffix(s, p) == Len(s) >= Len(p) /\ SubSeq(s, Len(s) - Len(p) + 1, Len(s)) = p

Separators == {"-", "_", "."}

\* String.prototype.toUpperCase on one character of the model's alphabet.
ToUpperCase(c) ==
    CASE c = "a" -> "A" [] c = "b" -> "B" [] c = "j" -> "J" [] c = "s" -> "S"
      [] c = "n" -> "N" [] c = "o" -> "O" [] c = "d" -> "D" [] c = "e" -> "E"
      [] OTHER -> c

\* libName.replace(/^node-/, ''): one leading "node-" is removed.
StripNodePrefix(s) ==
    IF HasPrefix(s, S_node) THEN SubSeq(s, Len(S_node) + 1, Len(s)) ELSE s

\* A bug StripJsSuffix could have: the separator is required.
StripJsSuffix_NeedsSep(s) ==
    IF HasSuffix(s, S_dotjs) \/ HasSuffix(s, S_dashjs)
    THEN SubSeq(s, 1, Len(s) - 3) ELSE s

\* s.replace(/[.-]?js$/, ''): a trailing "js" is removed, with the "." or "-"
\* before it when there is one.
StripJsSuffix(s) ==
    IF ~HasSuffix(s, S_js) THEN s
    ELSE IF Len(s) >= 3 /\ s[Len(s) - 2] \in {".", "-"}
         THEN SubSeq(s, 1, Len(s) - 3)
         ELSE SubSeq(s, 1, Len(s) - 2)

PackageName(libName) == StripJsSuffix(StripNodePrefix(libName))

\* packageName.replace(/[-_.](.)/g, function(m, p) {return p.toUpperCase();}):
\* the scan goes left to right; a separator followed by a character is one
\* match, replaced by that character upper-cased, and the scan resumes after
\* the match.  A separator in last position matches nothing and stays.
RECURSIVE CamelFrom(_, _)
CamelFrom(s, i) ==
    IF i > Len(s) THEN <<>>
    ELSE IF s[i] \in Separators /\ i + 1 <= Len(s)
         THEN <<ToUpperCase(s[i + 1])>> \o CamelFrom(s, i + 2)
         ELSE <<s[i]>> \o CamelFrom(s, i + 1)

VarName(packageName) == CamelFrom(packageName, 1)

\* -------------------------------------------------- the regular expressions

\* The index of the last "/" of s at or before position n, 0 when there is none.
RECURSIVE LastSlash(_, _)
LastSlash(s, n) ==
    IF n <= 0 THEN 0 ELSE IF s[n] = "/" THEN n ELSE LastSlash(s, n - 1)

\* path.match(/\/([^\/]+\/?)$/): the group is the last segment with the slash
\* that may end the path; Undef is the null a failed match returns.
MatchDirName(path) ==
    LET n == Len(path)
        e == IF n >= 1 /\ path[n] = "/" THEN n - 1 ELSE n
        i == LastSlash(path, e)
    IN  IF e >= 1 /\ i >= 1 /\ i < e THEN Some(SubSeq(path, i + 1, n)) ELSE Undef

\* url.match(/\/([^\/]+).git$/): the "." is unescaped and matches any
\* character; the group is what lies between a "/" and that character.
MatchRepoName(url) ==
    LET n == Len(url)
        i == LastSlash(url, n - 4)
    IN  IF n >= 6 /\ HasSuffix(url, S_git) /\ i >= 1 /\ i < n - 4
        THEN Some(SubSeq(url, i + 1, n - 4)) ELSE Undef

\* ------------------------------------------------------------------ base64

Base64Alphabet ==
    <<"A", "B", "C", "D", "E", "F", "G", "H", "I", "J", "K", "L", "M",
      "N", "O", "P", "Q", "R", "S", "T", "U", "V", "W", "X", "Y", "Z",
      "a", "b", "c", "d", "e", "f", "g", "h", "i", "j", "k", "l", "m",
      "n", "o", "p", "q", "r", "s", "t", "u", "v", "w", "x", "y", "z",
      "0", "1", "2", "3", "4", "5", "6", "7", "8", "9", "+", "/">>

Sextet(k) == Base64Alphabet[k + 1]

\* The byte new Buffer(str) holds for a character of the model's alphabet.
CharCode(c) ==
    CASE c = ":" -> 58 [] c = "a" -> 97 [] c = "b" -> 98 [] c = "t" -> 116
      [] OTHER -> 63

\* Buffer.prototype.toString('base64') on a sequence of bytes.
RECURSIVE Base64Bytes(_)
Base64Bytes(b) ==
    IF Len(b) = 0 THEN <<>>
    ELSE IF Len(b) = 1
    THEN <<Sextet(b[1] \div 4), Sextet((b[1] % 4) * 16), "=", "=">>
    ELSE IF Len(b) = 2
    THEN <<Sextet(b[1] \div 4), Sextet((b[1] % 4) * 16 + b[2] \div 16),
           Sextet((b[2] % 16) * 4), "=">>
    ELSE <<Sextet(b[1] \div 4), Sextet((b[1] % 4) * 16 + b[2] \div 16),
           Sextet((b[2] % 16) * 4 + b[3] \div 64), Sextet(b[3] % 64)>>
         \o Base64Bytes(SubSeq(b, 4, Len(b)))

ToBase64(str) == Base64Bytes([i \in 1..Len(str) |-> CharCode(str[i])])

IndexOfColon(str) == \E i \in 1..Len(str) : str[i] = ":"

\* A bug the filter could have: the test is inverted.
NpmApiKeyFilter_Inverted(str) == IF IndexOfColon(str) THEN str ELSE ToBase64(str)

\* The filter of the npmApiKey question:
\* str.indexOf(':') === -1 ? str : (new Buffer(str)).toString('base64').
NpmApiKeyFilter(str) == IF ~IndexOfColon(str) THEN str ELSE ToBase64(str)

\* ------------------------------------------------------------- JavaScript ||

\* a || b for opaque strings: undefined and '' are falsy.
OrStr(a, b) == IF IsDef(a) /\ Val(a) # "" THEN a ELSE b
\* a || b for character sequences: undefined and '' are falsy.
OrSeq(a, b) == IF IsDef(a) /\ Val(a) # <<>> THEN a ELSE b

\* ------------------------------------------------------------------- state

VARIABLES
    variant,     \* "app" (src/app/index.js) or "old" (src/unnamed/part_000)
    pc,          \* the step the run loop is at
    run,         \* the number of this run in the destination directory
    dest,        \* this.destinationPath()
    files,       \* the destination directory: path -> content
    before,      \* files as they were when this run started
    config,      \* this.config, the Stored Preferences (.yo-rc.json)
    conf,        \* this.conf
    context,     \* this.context
    localStore,  \* this.localStore
    json,        \* what initializing.packageJson read
    offered,     \* the default each question of this run was asked with
    inflight,    \* the encrypt() call awaiting its callback
    installs,    \* the npmInstall invocations of this run
    log,         \* what this run logged
    written,     \* the config keys this run has set
    lastAns,     \* the answers of the last run that passed configuring.localStore
    probe,       \* the name the name specification derives from
    keyAns       \* ans.genNpmKey, the answer to the regenerate question

vars == <<variant, pc, run, dest, files, before, config, conf, context,
          localStore, json, offered, inflight, installs, log, written,
          lastAns, probe, keyAns>>

\* ---------------------------------------------------------------- records

EmptyConf ==
    [main |-> Undef, version |-> Undef, libName |-> Undef, name |-> Undef,
     email |-> Undef, url |-> Undef, npmKey |-> Undef, libDesc |-> Undef]

\* this.conf = {main: 'index.js', version: '0.0.0'}
DefaultConf == [EmptyConf EXCEPT !.main = Some("index.js"), !.version = Some("0.0.0")]

EmptyContext ==
    [main |-> Undef, version |-> Undef, libName |-> Undef, name |-> Undef,
     email |-> Undef, url |-> Undef, npmKey |-> Undef, libDesc |-> Undef,
     authorName |-> Undef, authorEmail |-> Undef, authorUrl |-> Undef,
     copyrightYear |-> Undef, gulpfile |-> Undef, browser |-> Undef,
     promises |-> Undef, authorJSON |-> Undef, authorStr |-> Undef,
     repoName |-> Undef, packageName |-> Undef, varName |-> Undef,
     travisNpmKey |-> Undef]

\* objectAssign({}, this.conf)
ContextOfConf(c) ==
    [EmptyContext EXCEPT !.main = c.main, !.version = c.version,
        !.libName = c.libName, !.name = c.name, !.email = c.email,
        !.url = c.url, !.npmKey = c.npmKey, !.libDesc = c.libDesc]

GeneralKeys == {"libName", "libDesc", "copyrightYear", "gulpfile", "browser", "promises"}
ConfigKeys == GeneralKeys \cup {"travisNpmKey"}

EmptyConfig == [k \in ConfigKeys |-> Undef]
NoAnswers == [k \in GeneralKeys |-> Undef]

QuestionNames ==
    {"authorName", "authorEmail", "authorUrl", "genNpmKey", "npmApiKey"}
        \cup GeneralKeys
\* No question asked yet: a question is asked when it has an entry that is
\* defined; the entry holds the default it was asked with.
NotAsked == [q \in QuestionNames |-> Undef]

NoManifest ==
    [kind |-> "none",
     author |-> [t |-> "none", name |-> Undef, email |-> Undef, url |-> Undef],
     repository |-> [t |-> "none", url |-> Undef],
     name |-> Undef, version |-> Undef, main |-> Undef, description |-> Undef]

\* The encrypt() call of this run: not made ("none"), awaiting its callback
\* ("pending", with its arguments and the credential as entered), or
\* answered ("failed", or "ok" with the ciphertext).
NoCall == [state |-> "none", repo |-> <<>>, raw |-> <<>>, plain |-> <<>>, blob |-> ""]

\* The ciphertexts the encryption service returns.
Blobs == {"blob1", "blob2"}

NoProbe == [form |-> "none", x |-> <<>>, libName |-> <<>>,
            packageName |-> <<>>, varName |-> <<>>]

\* ------------------------------------------------------------ the run loop

AppOrder ==
    <<"initializing.default", "initializing.dir", "initializing.gitConfig",
      "initializing.npmConfig", "initializing.packageJson",
      "initializing.context",
      "prompting.author", "prompting.general", "prompting.genNpmKey",
      "configuring.localStore", "configuring.license",
      "configuring.editorconfig", "configuring.ack", "configuring.jshint",
      "configuring.jscs", "configuring.gulp", "configuring.karma",
      "configuring.mocha", "configuring.istanbul", "configuring.npm",
      "configuring.git", "configuring.travis",
      "writing.readme", "writing.authors", "writing.main", "writing.test",
      "install.promises", "install.istanbul", "install.mocha", "install.chai",
      "install.jshint", "install.jscs", "install.precommit", "install.gulp",
      "install.karma", "end">>

OldOrder ==
    <<"initializing.default", "initializing.dir", "initializing.gitConfig",
      "initializing.npmConfig", "initializing.packageJson",
      "prompting.general", "prompting.genNpmKey",
      "configuring.license", "configuring.readme", "configuring.editorconfig",
      "configuring.jshint", "configuring.jscs", "configuring.mocha",
      "configuring.npm", "configuring.git", "configuring.travis",
      "writing.main", "writing.test",
      "install.istanbul", "install.mocha", "install.chai", "install.jshint",
      "install.jscs", "end">>

Order(v) == IF v = "app" THEN AppOrder ELSE OldOrder

IndexOf(seq, x) == CHOOSE i \in 1..Len(seq) : seq[i] = x

\* The step the run loop starts once step `step` has completed.
StepAfter(v, step) == Order(v)[IndexOf(Order(v), step) + 1]

\* The step `step` runs in this state and completes: the run loop moves on.
Done(step) == pc' = StepAfter(variant, step)
At(step) == pc = step

\* An error nothing catches: the run ends there.
Crash == pc' = "crashed"

\* ------------------------------------------------------- the environment

\* Destination directories: the file system root and a directory under it.
\* destinationPath() is absolute and normalised.
DestRoot == <<"/">>
DestA == <<"/", "a">>

Variants == {"app", "old"}

\* What gitconf() hands its callback: an error, or a configuration that may
\* have no [user] section.
GitOutcome(err, user, name, email) ==
    [err |-> err, user |-> user, name |-> name, email |-> email]
GitFull == GitOutcome(FALSE, TRUE, Some("Git Name"), Some("git@x"))
GitNoUser == GitOutcome(FALSE, FALSE, Undef, Undef)
GitError == GitOutcome(TRUE, FALSE, Undef, Undef)
GitOutcomes ==
    {GitError, GitNoUser}
        \cup {GitOutcome(FALSE, TRUE, n, e) :
                n \in {Undef, Some("Git Name")}, e \in {Undef, Some("git@x")}}

\* What npmconf.load() hands its callback.
NpmOutcome(err, name, email, url, auth) ==
    [err |-> err, name |-> name, email |-> email, url |-> url, auth |-> auth]
NpmFull == NpmOutcome(FALSE, Some("Npm Name"), Some("npm@x"),
                      Some("http://npm"), Some(<<"t">>))
NpmError == NpmOutcome(TRUE, Undef, Undef, Undef, Undef)
NpmOutcomes ==
    {NpmError, NpmOutcome(FALSE, Undef, Undef, Undef, Undef)}
        \cup {NpmOutcome(FALSE, n, e, u, Some(<<"t">>)) :
                n \in {Undef, Some("Npm Name")}, e \in {Undef, Some("npm@x")},
                u \in {Undef, Some("http://npm")}}

\* package.json in the destination directory.  kind "none": no such file,
\* readJSON returns its default {}; "unparseable": readJSON throws; "json":
\* the parsed manifest.  author.t is the type of json.author: "none"
\* (undefined), "string", "null" or "object"; repository.t likewise.
UrlWithGit == <<"h", ":", "/", "O", "/", "r", ".", "g", "i", "t">>
UrlNoGit == <<"h", ":", "/", "O", "/", "r">>

AuthorField(vals) == {Undef, Some("")} \cup {Some(v) : v \in vals}
Authors ==
    {[t |-> t, name |-> Undef, email |-> Undef, url |-> Undef] :
        t \in {"none", "string", "null"}}
    \cup {[t |-> "object", name |-> n, email |-> e, url |-> u] :
            n \in AuthorField({"Pkg Name"}), e \in AuthorField({"pkg@x"}),
            u \in AuthorField({"http://pkg"})}
Repositories ==
    {[t |-> "none", url |-> Undef], [t |-> "string", url |-> Undef],
     [t |-> "object", url |-> Undef], [t |-> "object", url |-> Some(UrlWithGit)],
     [t |-> "object", url |-> Some(UrlNoGit)]}

Manifest(a, r, n, v, m, d) ==
    [kind |-> "json", author |-> a, repository |-> r, name |-> n,
     version |-> v, main |-> m, description |-> d]
Unparseable == [NoManifest EXCEPT !.kind = "unparseable"]
Manifests ==
    {NoManifest, Unparseable}
        \cup {Manifest(a, r, n, v, m, d) :
                a \in Authors, r \in Repositories, n \in {Undef, Some(<<"m">>)},
                v \in {Undef, Some("1.2.3")}, m \in {Undef, Some("lib/main.js")},
                d \in {Undef, Some("Pkg Desc")}}

\* ------------------------------------------------------------ initializing

LogErr(what) == log' = Append(log, what)

\* initializing.default
Default ==
    /\ At("initializing.default")
    /\ conf' = DefaultConf
    /\ Done("initializing.default")
    /\ UNCHANGED <<variant, run, dest, files, before, config, context,
                   localStore, json, offered, inflight, installs, log,
                   written, lastAns, probe, keyAns>>

\* initializing.dir: match(...)[1] throws a TypeError when the match is null.
Dir ==
    /\ At("initializing.dir")
    /\ LET m == MatchDirName(dest)
       IN  IF ~IsDef(m)
           THEN Crash /\ UNCHANGED conf
           ELSE /\ conf' = [conf EXCEPT !.libName = OrSeq(m, conf.libName)]
                /\ Done("initializing.dir")
    /\ UNCHANGED <<variant, run, dest, files, before, config, context,
                   localStore, json, offered, inflight, installs, log,
                   written, lastAns, probe, keyAns>>

\* initializing.gitConfig with the callback of gitconf(): conf.user.name
\* throws a TypeError, inside the callback, when conf has no user.
GitConfig(outcomes) ==
    /\ At("initializing.gitConfig")
    /\ \E g \in outcomes :
         IF g.err
         THEN LogErr("gitconf") /\ Done("initializing.gitConfig") /\ UNCHANGED conf
         ELSE IF ~g.user
         THEN Crash /\ UNCHANGED <<conf, log>>
         ELSE /\ conf' = [conf EXCEPT !.name = OrStr(g.name, conf.name),
                                      !.email = OrStr(g.email, conf.email)]
              /\ Done("initializing.gitConfig")
              /\ UNCHANGED log
    /\ UNCHANGED <<variant, run, dest, files, before, config, context,
                   localStore, json, offered, inflight, installs, written,
                   lastAns, probe, keyAns>>

\* initializing.npmConfig with the callback of npmconf.load()
NpmConfig(outcomes) ==
    /\ At("initializing.npmConfig")
    /\ \E n \in outcomes :
         IF n.err
         THEN LogErr("npmconf") /\ UNCHANGED conf
         ELSE /\ conf' = [conf EXCEPT !.name = OrStr(n.name, conf.name),
                                      !.email = OrStr(n.email, conf.email),
                                      !.url = OrStr(n.url, conf.url),
                                      !.npmKey = OrSeq(n.auth, conf.npmKey)]
              /\ UNCHANGED log
    /\ Done("initializing.npmConfig")
    /\ UNCHANGED <<variant, run, dest, files, before, config, context,
                   localStore, json, offered, inflight, installs, written,
                   lastAns, probe, keyAns>>

\* The statements of the try block of initializing.packageJson, in order; a
\* statement that throws leaves the assignments before it in place.
\* (json.author && json.author.name) || this.conf.name
PkgAuthorName(m, c) ==
    [c EXCEPT !.name =
        OrStr(IF m.author.t = "object" THEN m.author.name ELSE Undef, c.name)]
\* typeof json.author === 'object' holds of null too, and null.email throws.
PkgAuthorThrows(m) == m.author.t = "null"
\* A bug PkgAuthorRest could have: the identity already resolved wins.
PkgAuthorRest_ResolvedFirst(m, c) ==
    IF m.author.t = "object"
    THEN [c EXCEPT !.email = OrStr(c.email, m.author.email),
                   !.url = OrStr(c.url, m.author.url)]
    ELSE c
PkgAuthorRest(m, c) ==
    IF m.author.t = "object"
    THEN [c EXCEPT !.email = OrStr(m.author.email, c.email),
                   !.url = OrStr(m.author.url, c.url)]
    ELSE c
\* json.repository.url.match(...)[1] throws when the URL does not match.
PkgRepoUrl(m) ==
    IF m.repository.t = "object" THEN m.repository.url ELSE Undef
PkgRepoThrows(m) ==
    /\ IsDef(PkgRepoUrl(m)) /\ Val(PkgRepoUrl(m)) # <<>>
    /\ ~IsDef(MatchRepoName(Val(PkgRepoUrl(m))))
PkgLibName(m, c) ==
    LET u == PkgRepoUrl(m)
        fromRepo == IF IsDef(u) /\ Val(u) # <<>> THEN MatchRepoName(Val(u)) ELSE Undef
    IN  [c EXCEPT !.libName = OrSeq(fromRepo, OrSeq(m.name, c.libName))]
PkgRest(m, c) ==
    [c EXCEPT !.version = OrStr(m.version, c.version),
              !.main = OrStr(m.main, c.main),
              !.libDesc = OrStr(m.description, c.libDesc)]

\* this.conf after the try block, for manifest m read into json.
ConfAfterPackageJson(m, c) ==
    IF m.kind = "unparseable" THEN c
    ELSE LET c1 == PkgAuthorName(m, c) IN
         IF PkgAuthorThrows(m) THEN c1
         ELSE LET c2 == PkgAuthorRest(m, c1) IN
              IF PkgRepoThrows(m) THEN c2
              ELSE PkgRest(m, PkgLibName(m, c2))

PackageJsonThrows(m) ==
    m.kind = "unparseable" \/ PkgAuthorThrows(m) \/ PkgRepoThrows(m)

\* initializing.packageJson: the catch block logs what the try block threw.
PackageJson(manifests) ==
    /\ At("initializing.packageJson")
    /\ \E m \in manifests :
         /\ json' = m
         /\ conf' = ConfAfterPackageJson(m, conf)
         /\ IF PackageJsonThrows(m) THEN LogErr("packageJson") ELSE UNCHANGED log
    /\ Done("initializing.packageJson")
    /\ UNCHANGED <<variant, run, dest, files, before, config, context,
                   localStore, offered, inflight, installs, written,
                   lastAns, probe, keyAns>>

\* initializing.context (src/app/index.js only)
Context ==
    /\ At("initializing.context")
    /\ variant = "app"
    /\ context' = ContextOfConf(conf)
    /\ Done("initializing.context")
    /\ UNCHANGED <<variant, run, dest, files, before, config, conf,
                   localStore, json, offered, inflight, installs, log,
                   written, lastAns, probe, keyAns>>

\* -------------------------------------------------------- the file system

\* A path is <<name, parameter>>: the parameter is the package name of
\* test/<packageName>.test.js and empty for every other path.
Path(name) == <<name, <<>>>>
TestPath(packageName) == <<"test/*.test.js", packageName>>

\* A content: what the operator wrote, or a template as this generator
\* copied or rendered it in run `gen`; key is the travisNpmKey a rendering
\* of travis.yml substituted.
UserContent == [kind |-> "user", tpl |-> "", gen |-> 0, key |-> Undef]
Copied(tpl) == [kind |-> "copied", tpl |-> tpl, gen |-> run, key |-> Undef]
Rendered(tpl, ctx) == [kind |-> "rendered", tpl |-> tpl, gen |-> run, key |-> ctx.travisNpmKey]

Exists(fs, path) == path \in DOMAIN fs
WriteFile(fs, path, content) == (path :> content) @@ fs

NoFiles == [p \in {} |-> UserContent]
UserFiles(paths) == [p \in paths |-> UserContent]

\* ------------------------------------------------------------ construction

\* The generator is constructed in directory d of a variant v, the directory
\* holding the operator's files fs and no Stored Preferences.
InitIn(v, d, fs) ==
    /\ variant = v
    /\ pc = "initializing.default"
    /\ run = 1
    /\ dest = d
    /\ files = fs
    /\ before = fs
    /\ config = EmptyConfig
    /\ conf = EmptyConf
    /\ context = EmptyContext
    /\ localStore = NoAnswers
    /\ json = NoManifest
    /\ offered = NotAsked
    /\ inflight = NoCall
    /\ installs = <<>>
    /\ log = <<>>
    /\ written = {}
    /\ lastAns = NoAnswers
    /\ probe = NoProbe
    /\ keyAns = Undef

\* --------------------------------------------------------------- prompting

\* What the operator answers a question asked with default d: the default,
\* or the empty string where there is none, or a value typed in.
Accepted(d, empty) == IF IsDef(d) THEN Val(d) ELSE empty

\* (new Date(Date.now())).getFullYear()
ThisYear == "2015"

TypedLibName == <<"n", "o", "d", "e", "-", "b">>
TypedLibDesc == "Typed Desc"
TypedYear == "1999"

\* JSON.stringify({name, email, url: ans.authorUrl || undefined}, null, 2)
AuthorJSON(n, e, u) == [name |-> n, email |-> e, url |-> OrStr(Some(u), Undef)]
\* name + ' <' + email + '>' + (url && (' (' + url + ')'))
AuthorStr(n, e, u) == <<n, " <", e, ">", IF u = "" THEN "" ELSE " (" , u, IF u = "" THEN "" ELSE ")">>

\* The answers to the three author questions, each asked with the resolved
\* value as its default: the operator accepts a default and types a value
\* where validation refuses the empty string.
AuthorAnswers(c) ==
    {[authorName |-> Accepted(c.name, "Typed Name"),
      authorEmail |-> Accepted(c.email, "typed@x"),
      authorUrl |-> Accepted(c.url, "")]}

WithAuthor(ctx, a) ==
    [ctx EXCEPT !.authorName = Some(a.authorName),
                !.authorEmail = Some(a.authorEmail),
                !.authorUrl = Some(a.authorUrl),
                !.authorJSON = Some(AuthorJSON(a.authorName, a.authorEmail, a.authorUrl)),
                !.authorStr = Some(AuthorStr(a.authorName, a.authorEmail, a.authorUrl))]

AskAuthor(c) ==
    [offered EXCEPT !.authorName = Some(c.name), !.authorEmail = Some(c.email),
                    !.authorUrl = Some(c.url)]

\* prompting.author (src/app/index.js only) with the callback of its prompt
Author ==
    /\ At("prompting.author")
    /\ variant = "app"
    /\ offered' = AskAuthor(conf)
    /\ \E a \in AuthorAnswers(conf) : context' = WithAuthor(context, a)
    /\ Done("prompting.author")
    /\ UNCHANGED <<variant, run, dest, files, before, config, conf,
                   localStore, json, inflight, installs, log, written,
                   lastAns, probe, keyAns>>

\* stored === undefined ? prompt.default : stored
StoredOrDefault(stored, default) == IF stored = Undef THEN default ELSE stored

\* A bug AppGeneralDefaults could have: `stored || default` for the flags,
\* which drops a stored false.
AppGeneralDefaults_FalsyFlags(c, cfg) ==
    [libName |-> StoredOrDefault(cfg.libName, c.libName),
     libDesc |-> StoredOrDefault(cfg.libDesc, c.libDesc),
     copyrightYear |-> StoredOrDefault(cfg.copyrightYear, Some(ThisYear)),
     gulpfile |-> IF IsDef(cfg.gulpfile) /\ Val(cfg.gulpfile) THEN cfg.gulpfile ELSE Some(FALSE),
     browser |-> IF IsDef(cfg.browser) /\ Val(cfg.browser) THEN cfg.browser ELSE Some(TRUE),
     promises |-> IF IsDef(cfg.promises) /\ Val(cfg.promises) THEN cfg.promises ELSE Some(TRUE)]

\* The defaults of the questions of prompting.general in src/app/index.js,
\* after "Load previous answers".
AppGeneralDefaults(c, cfg) ==
    [libName |-> StoredOrDefault(cfg.libName, c.libName),
     libDesc |-> StoredOrDefault(cfg.libDesc, c.libDesc),
     copyrightYear |-> StoredOrDefault(cfg.copyrightYear, Some(ThisYear)),
     gulpfile |-> StoredOrDefault(cfg.gulpfile, Some(FALSE)),
     browser |-> StoredOrDefault(cfg.browser, Some(TRUE)),
     promises |-> StoredOrDefault(cfg.promises, Some(TRUE))]

\* The answers an operator gives when asked with defaults d: every default
\* accepted, every answer changed, or one answer of ChangedAlone changed.
TypedInstead(v, typed, other) == IF v = typed THEN other ELSE typed
AllAccepted(d) ==
    [libName |-> Some(Accepted(d.libName, <<>>)),
     libDesc |-> Some(Accepted(d.libDesc, "")),
     copyrightYear |-> Some(Accepted(d.copyrightYear, "")),
     gulpfile |-> Some(Accepted(d.gulpfile, FALSE)),
     browser |-> Some(Accepted(d.browser, FALSE)),
     promises |-> Some(Accepted(d.promises, FALSE))]
AllChanged(d) ==
    LET a == AllAccepted(d)
    IN  [libName |-> Some(TypedInstead(Val(a.libName), TypedLibName, <<"a">>)),
         libDesc |-> Some(TypedInstead(Val(a.libDesc), TypedLibDesc, "")),
         copyrightYear |-> Some(TypedInstead(Val(a.copyrightYear), TypedYear, ThisYear)),
         gulpfile |-> Some(~Val(a.gulpfile)),
         browser |-> Some(~Val(a.browser)),
         promises |-> Some(~Val(a.promises))]
ChangedAlone == {"libName", "promises"}
GeneralAnswers(d) ==
    {AllAccepted(d), AllChanged(d)}
        \cup {[AllAccepted(d) EXCEPT ![k] = AllChanged(d)[k]] : k \in ChangedAlone}

\* The fields the callback of the general prompt derives from ans.libName.
WithNames(ctx, libName) ==
    [ctx EXCEPT !.repoName = Some(libName),
                !.packageName = Some(PackageName(libName)),
                !.varName = Some(VarName(PackageName(libName)))]

\* objectAssign(this.context, ans) for the answers of the general prompt
WithGeneral(ctx, a) ==
    [ctx EXCEPT !.libName = a.libName, !.libDesc = a.libDesc,
                !.copyrightYear = a.copyrightYear, !.gulpfile = a.gulpfile,
                !.browser = a.browser, !.promises = a.promises]

AskGeneral(d) ==
    [offered EXCEPT !.libName = Some(d.libName), !.libDesc = Some(d.libDesc),
                    !.copyrightYear = Some(d.copyrightYear),
                    !.gulpfile = Some(d.gulpfile), !.browser = Some(d.browser),
                    !.promises = Some(d.promises)]

\* prompting.general of src/app/index.js with the callback of its prompt
AppGeneral ==
    /\ At("prompting.general")
    /\ variant = "app"
    /\ LET d == AppGeneralDefaults(conf, config)
       IN  /\ offered' = AskGeneral(d)
           /\ \E a \in GeneralAnswers(d) :
                /\ context' = WithNames(WithGeneral(context, a), Val(a.libName))
                /\ localStore' = a
    /\ Done("prompting.general")
    /\ UNCHANGED <<variant, run, dest, files, before, config, conf, json,
                   inflight, installs, log, written, lastAns, probe, keyAns>>

\* The defaults of the questions of prompting.general in
\* src/unnamed/part_000: only copyrightYear reads the Stored Preferences,
\* with config.get('copyrightYear') || year.
OldGeneralDefaults(c, cfg) ==
    [libName |-> c.libName, libDesc |-> c.libDesc,
     copyrightYear |-> OrStr(cfg.copyrightYear, Some(ThisYear))]

OldGeneralAnswers(d) ==
    LET acc == [libName |-> Some(Accepted(d.libName, <<>>)),
                libDesc |-> Some(Accepted(d.libDesc, "")),
                copyrightYear |-> Some(Accepted(d.copyrightYear, ""))]
        chg == [libName |-> Some(TypedInstead(Val(acc.libName), TypedLibName, <<"a">>)),
                libDesc |-> Some(TypedInstead(Val(acc.libDesc), TypedLibDesc, "")),
                copyrightYear |-> Some(TypedInstead(Val(acc.copyrightYear), TypedYear, ThisYear))]
    IN  {acc, chg} \cup {[acc EXCEPT ![k] = chg[k]] :
                            k \in {"libName", "copyrightYear"}}

\* prompting.general of src/unnamed/part_000 with the callback of its
\* prompt: the filter of copyrightYear stores the answer, the callback
\* builds the context from conf and the answers.
OldGeneral ==
    /\ At("prompting.general")
    /\ variant = "old"
    /\ LET d == OldGeneralDefaults(conf, config)
       IN  /\ offered' = [AskAuthor(conf) EXCEPT
                            !.libName = Some(d.libName),
                            !.libDesc = Some(d.libDesc),
                            !.copyrightYear = Some(d.copyrightYear)]
           /\ \E a \in OldGeneralAnswers(d), au \in AuthorAnswers(conf) :
                /\ config' = [config EXCEPT !.copyrightYear = a.copyrightYear]
                /\ context' =
                     WithNames(
                        WithAuthor(
                           [ContextOfConf(conf) EXCEPT
                               !.libName = a.libName, !.libDesc = a.libDesc,
                               !.copyrightYear = a.copyrightYear], au),
                        Val(a.libName))
    /\ written' = written \cup {"copyrightYear"}
    /\ Done("prompting.general")
    /\ UNCHANGED <<variant, run, dest, files, before, conf, localStore, json,
                   inflight, installs, log, lastAns, probe, keyAns>>

\* ------------------------------------------------------ Secret Provisioner

\* The credentials an operator enters: any string of these characters up to
\* the bound, or the default of the question.
CredChars == {"a", ":"}
Credentials(default) ==
    BSeq(CredChars, MaxCredLen) \cup (IF IsDef(default) THEN {Val(default)} ELSE {})

\* !!generator.config.get('travisNpmKey')
KeyStored(cfg) == IsDef(cfg.travisNpmKey) /\ Val(cfg.travisNpmKey) # ""

\* A bug the `when` of npmApiKey could have: the question is always asked.
AskNpmApiKey_Always(cfg, genNpmKey) == TRUE

\* The `when` of npmApiKey: ans.genNpmKey || !config.get('travisNpmKey')
AskNpmApiKey(cfg, genNpmKey) ==
    (IsDef(genNpmKey) /\ Val(genNpmKey)) \/ ~KeyStored(cfg)

\* prompting.genNpmKey with the callback of its prompt; genNpmKey and raw
\* are the operator's answers to the questions that are asked.
GenNpmKey ==
    /\ At("prompting.genNpmKey")
    /\ \E regen \in BOOLEAN, raw \in Credentials(conf.npmKey) :
         LET genNpmKey == IF KeyStored(config) THEN Some(regen) ELSE Undef
             ask == AskNpmApiKey(config, genNpmKey)
             npmApiKey == IF ask THEN Some(NpmApiKeyFilter(raw)) ELSE Undef
         IN  /\ offered' = [offered EXCEPT
                              !.genNpmKey = IF KeyStored(config) THEN Some(Some(FALSE)) ELSE Undef,
                              !.npmApiKey = IF ask THEN Some(conf.npmKey) ELSE Undef]
             /\ keyAns' = genNpmKey
             /\ IF ~IsDef(npmApiKey) \/ Val(npmApiKey) = <<>>
                THEN Done("prompting.genNpmKey") /\ UNCHANGED inflight
                ELSE /\ pc' = "prompting.genNpmKey.encrypt"
                     /\ inflight' = [state |-> "pending",
                                     repo |-> <<"O", "A", "D", "A", "/">> \o Val(context.repoName),
                                     raw |-> raw, plain |-> Val(npmApiKey), blob |-> ""]
    /\ UNCHANGED <<variant, run, dest, files, before, config, conf, context,
                   localStore, json, installs, log, written, lastAns, probe>>

\* A bug the callback of encrypt() could have: the blob is stored without
\* looking at err.
EncryptCallback_IgnoresErr ==
    /\ At("prompting.genNpmKey.encrypt")
    /\ \/ /\ LogErr("encrypt")
          /\ config' = [config EXCEPT !.travisNpmKey = Undef]
          /\ written' = written \cup {"travisNpmKey"}
          /\ inflight' = [NoCall EXCEPT !.state = "failed"]
       \/ \E blob \in Blobs :
            /\ config' = [config EXCEPT !.travisNpmKey = Some(blob)]
            /\ written' = written \cup {"travisNpmKey"}
            /\ inflight' = [NoCall EXCEPT !.state = "ok", !.blob = blob]
            /\ UNCHANGED log
    /\ Done("prompting.genNpmKey")
    /\ UNCHANGED <<variant, run, dest, files, before, conf, context,
                   localStore, json, offered, installs, lastAns, probe, keyAns>>

\* The callback of encrypt(): function(err, blob)
EncryptCallback ==
    /\ At("prompting.genNpmKey.encrypt")
    /\ \/ /\ LogErr("encrypt")
          /\ inflight' = [NoCall EXCEPT !.state = "failed"]
          /\ UNCHANGED <<config, written>>
       \/ \E blob \in Blobs :
            /\ config' = [config EXCEPT !.travisNpmKey = Some(blob)]
            /\ written' = written \cup {"travisNpmKey"}
            /\ inflight' = [NoCall EXCEPT !.state = "ok", !.blob = blob]
            /\ UNCHANGED log
    /\ Done("prompting.genNpmKey")
    /\ UNCHANGED <<variant, run, dest, files, before, conf, context,
                   localStore, json, offered, installs, lastAns, probe, keyAns>>

\* ------------------------------------------------------------- configuring

\* A step that only writes files and completes.
FileStep(step, fs) ==
    /\ At(step)
    /\ files' = fs
    /\ Done(step)
    /\ UNCHANGED <<variant, run, dest, before, config, conf, context,
                   localStore, json, offered, inflight, installs, log,
                   written, lastAns, probe, keyAns>>

\* this.fs.copy(this.templatePath(tpl), this.destinationPath(name))
Copy(fs, tpl, name) == WriteFile(fs, Path(name), Copied(tpl))
\* this.fs.copyTpl(this.templatePath(tpl), path, this.context)
CopyTpl(fs, tpl, path) == WriteFile(fs, path, Rendered(tpl, context))

\* configuring.localStore (src/app/index.js only): every key of the answers
\* of the general prompt is set to this.context[key].
StoreAnswers(cfg, answers, ctx) ==
    [k \in ConfigKeys |->
        IF k \in GeneralKeys /\ IsDef(answers[k]) THEN ctx[k] ELSE cfg[k]]

LocalStore ==
    /\ At("configuring.localStore")
    /\ variant = "app"
    /\ config' = StoreAnswers(config, localStore, context)
    /\ written' = written \cup {k \in GeneralKeys : IsDef(localStore[k])}
    /\ lastAns' = localStore
    /\ Done("configuring.localStore")
    /\ UNCHANGED <<variant, run, dest, files, before, conf, context,
                   localStore, json, offered, inflight, installs, log, probe, keyAns>>

\* configuring.license of src/app/index.js
AppLicense ==
    /\ variant = "app"
    /\ FileStep("configuring.license",
                CopyTpl(Copy(files, "_LICENSE", "LICENSE"), "_NOTICE", Path("NOTICE")))

\* configuring.license of src/unnamed/part_000, which renders AUTHORS too
OldLicense ==
    /\ variant = "old"
    /\ FileStep("configuring.license",
                CopyTpl(CopyTpl(Copy(files, "_LICENSE", "LICENSE"),
                                "_AUTHORS", Path("AUTHORS")),
                        "_NOTICE", Path("NOTICE")))

\* configuring.readme (src/unnamed/part_000 only)
OldReadme ==
    /\ variant = "old"
    /\ FileStep("configuring.readme", CopyTpl(files, "_README.md", Path("README.md")))

\* configuring.editorconfig
Editorconfig ==
    FileStep("configuring.editorconfig", Copy(files, "editorconfig", ".editorconfig"))

\* configuring.ack (src/app/index.js only)
Ack ==
    /\ variant = "app"
    /\ FileStep("configuring.ack", Copy(files, "ackrc", ".ackrc"))

\* configuring.jshint
ConfJshint ==
    FileStep("configuring.jshint",
             Copy(Copy(files, "jshintrc", ".jshintrc"), "jshintignore", ".jshintignore"))

\* configuring.jscs
ConfJscs == FileStep("configuring.jscs", Copy(files, "jscsrc", ".jscsrc"))

\* configuring.gulp (src/app/index.js only)
ConfGulp ==
    /\ variant = "app"
    /\ FileStep("configuring.gulp",
                IF ~Val(context.gulpfile) THEN files
                ELSE CopyTpl(files, "_gulpfile.js", Path("gulpfile.js")))

\* configuring.karma (src/app/index.js only)
ConfKarma ==
    /\ variant = "app"
    /\ FileStep("configuring.karma",
                IF ~Val(context.browser) THEN files
                ELSE CopyTpl(files, "_karma.conf.js", Path("karma.conf.js")))

\* configuring.mocha
ConfMocha ==
    FileStep("configuring.mocha",
             Copy(Copy(files, "test/mocha.opts", "test/mocha.opts"),
                  "jshintrc+test/jshintrc-mocha", "test/.jshintrc"))

\* configuring.istanbul (src/app/index.js only)
ConfIstanbul ==
    /\ variant = "app"
    /\ FileStep("configuring.istanbul", Copy(files, "istanbul.yml", ".istanbul.yml"))

\* configuring.npm
ConfNpm == FileStep("configuring.npm", CopyTpl(files, "_package.json", Path("package.json")))

\* configuring.git
ConfGit == FileStep("configuring.git", Copy(files, "gitignore", ".gitignore"))

\* A bug configuring.travis could have: the template is rendered with the
\* context as it is, the stored key is not read.
Travis_KeyNotRead ==
    /\ At("configuring.travis")
    /\ files' = WriteFile(files, Path(".travis.yml"), Rendered("travis.yml", context))
    /\ Done("configuring.travis")
    /\ UNCHANGED <<variant, run, dest, before, config, conf, context,
                   localStore, json, offered, inflight, installs, log,
                   written, lastAns, probe, keyAns>>

\* configuring.travis: the stored key is read into the context, then the
\* template is rendered with the context.
Travis ==
    /\ At("configuring.travis")
    /\ context' = [context EXCEPT !.travisNpmKey = config.travisNpmKey]
    /\ files' = WriteFile(files, Path(".travis.yml"), Rendered("travis.yml", context'))
    /\ Done("configuring.travis")
    /\ UNCHANGED <<variant, run, dest, before, config, conf, localStore,
                   json, offered, inflight, installs, log, written, lastAns,
                   probe, keyAns>>

\* ----------------------------------------------------------------- writing

\* A bug CopyTplIfAbsent could have: the test is missing.
CopyTplIfAbsent_Always(fs, tpl, path) == CopyTpl(fs, tpl, path)

\* if (this.fs.exists(dest)) { return; } this.fs.copyTpl(tpl, dest, context)
CopyTplIfAbsent(fs, tpl, path) == IF Exists(fs, path) THEN fs ELSE CopyTpl(fs, tpl, path)

\* writing.readme (src/app/index.js only)
AppReadme ==
    /\ variant = "app"
    /\ FileStep("writing.readme", CopyTplIfAbsent(files, "_README.md", Path("README.md")))

\* writing.authors (src/app/index.js only)
AppAuthors ==
    /\ variant = "app"
    /\ FileStep("writing.authors", CopyTplIfAbsent(files, "_AUTHORS", Path("AUTHORS")))

\* writing.main of src/app/index.js
AppMain ==
    /\ variant = "app"
    /\ FileStep("writing.main", CopyTplIfAbsent(files, "index.js", Path(Val(context.main))))

\* writing.test of src/app/index.js: both files are written, or neither,
\* on the one test of test/<packageName>.test.js.
AppTest ==
    /\ variant = "app"
    /\ FileStep("writing.test",
                LET t == TestPath(Val(context.packageName))
                IN  IF Exists(files, t) THEN files
                    ELSE CopyTpl(CopyTpl(files, "test/test.js", t),
                                 "test/setup.js", Path("test/setup.js")))

\* writing.main of src/unnamed/part_000
OldMain ==
    /\ variant = "old"
    /\ FileStep("writing.main", CopyTpl(files, "index.js", Path(Val(context.main))))

\* writing.test of src/unnamed/part_000
OldTest ==
    /\ variant = "old"
    /\ FileStep("writing.test",
                CopyTpl(files, "test/test.js", TestPath(Val(context.packageName))))

\* ----------------------------------------------------------------- install

\* A bug NpmInstall could have: every package is saved as a dependency.
NpmInstall_AlwaysSave(seq, pkgs, kind) == Append(seq, [pkgs |-> pkgs, kind |-> "save"])

\* this.npmInstall(pkgs, {save: true}) or {saveDev: true}
NpmInstall(seq, pkgs, kind) == Append(seq, [pkgs |-> pkgs, kind |-> kind])

\* A step that only calls npmInstall and completes.
InstallStep(step, invocations) ==
    /\ At(step)
    /\ installs' = invocations
    /\ Done(step)
    /\ UNCHANGED <<variant, run, dest, files, before, config, conf, context,
                   localStore, json, offered, inflight, log, written,
                   lastAns, probe, keyAns>>

\* install.promises (src/app/index.js only)
InstallPromises ==
    /\ variant = "app"
    /\ InstallStep("install.promises",
                   IF ~Val(context.promises) THEN installs
                   ELSE NpmInstall(installs, <<"bluebird">>, "save"))

\* install.istanbul
InstallIstanbul ==
    InstallStep("install.istanbul", NpmInstall(installs, <<"istanbul">>, "saveDev"))

\* install.mocha
InstallMocha ==
    InstallStep("install.mocha", NpmInstall(installs, <<"mocha">>, "saveDev"))

\* install.chai of src/app/index.js
AppInstallChai ==
    /\ variant = "app"
    /\ InstallStep("install.chai",
                   LET c == NpmInstall(installs, <<"chai">>, "saveDev")
                   IN  IF Val(context.promises)
                       THEN NpmInstall(c, <<"chai-as-promised">>, "saveDev")
                       ELSE c)

\* install.chai of src/unnamed/part_000
OldInstallChai ==
    /\ variant = "old"
    /\ InstallStep("install.chai", NpmInstall(installs, <<"chai">>, "saveDev"))

\* install.jshint
InstallJshint ==
    InstallStep("install.jshint",
                NpmInstall(installs, <<"jshint", "jshint-stylish">>, "saveDev"))

\* install.jscs
InstallJscs ==
    InstallStep("install.jscs", NpmInstall(installs, <<"jscs">>, "saveDev"))

\* install.precommit (src/app/index.js only): mkdirp() is called and the
\* step waits for its callback.
Precommit ==
    /\ At("install.precommit")
    /\ variant = "app"
    /\ pc' = "install.precommit.mkdirp"
    /\ UNCHANGED <<variant, run, dest, files, before, config, conf, context,
                   localStore, json, offered, inflight, installs, log,
                   written, lastAns, probe, keyAns>>

HooksDir == Path(".git/hooks")
Directory == [kind |-> "dir", tpl |-> "", gen |-> 0, key |-> Undef]

\* A bug the callback of mkdirp() could have: an error ends the step
\* without the installation.
MkdirpCallback_ReturnsOnErr ==
    /\ At("install.precommit.mkdirp")
    /\ \/ LogErr("mkdirp") /\ UNCHANGED <<files, installs>>
       \/ /\ files' = IF Exists(files, HooksDir) THEN files
                      ELSE WriteFile(files, HooksDir, Directory)
          /\ installs' = NpmInstall(installs, <<"pre-commit">>, "saveDev")
          /\ UNCHANGED log
    /\ Done("install.precommit")
    /\ UNCHANGED <<variant, run, dest, before, config, conf, context,
                   localStore, json, offered, inflight, written, lastAns,
                   probe, keyAns>>

\* The callback of mkdirp(): an error is logged, pre-commit is installed
\* either way, done() is called.
MkdirpCallback ==
    /\ At("install.precommit.mkdirp")
    /\ \/ LogErr("mkdirp") /\ UNCHANGED files
       \/ /\ files' = IF Exists(files, HooksDir) THEN files
                      ELSE WriteFile(files, HooksDir, Directory)
          /\ UNCHANGED log
    /\ installs' = NpmInstall(installs, <<"pre-commit">>, "saveDev")
    /\ Done("install.precommit")
    /\ UNCHANGED <<variant, run, dest, before, config, conf, context,
                   localStore, json, offered, inflight, written, lastAns,
                   probe, keyAns>>

\* install.gulp (src/app/index.js only)
InstallGulp ==
    /\ variant = "app"
    /\ InstallStep("install.gulp",
                   IF ~Val(context.gulpfile) THEN installs
                   ELSE NpmInstall(installs, <<"gulp", "gulp-jshint", "gulp-jscs">>, "saveDev"))

\* install.karma (src/app/index.js only)
InstallKarma ==
    /\ variant = "app"
    /\ InstallStep("install.karma",
                   IF ~Val(context.browser) THEN installs
                   ELSE NpmInstall(installs,
                          <<"karma", "yargs", "karma-browserify",
                            "browserify-istanbul", "brfs", "karma-coverage@0.2.6",
                            "karma-mocha", "karma-mocha-reporter",
                            "karma-phantomjs-launcher", "karma-phantomjs-shim">>,
                          "saveDev"))

\* ------------------------------------------------------------- the next run

\* The operator starts the generator again in the same directory: a new
\* generator object, the files and the Stored Preferences as the last run
\* left them.
NewRun ==
    /\ pc \in {"end", "crashed"}
    /\ run < MaxRuns
    /\ run' = run + 1
    /\ pc' = "initializing.default"
    /\ before' = files
    /\ conf' = EmptyConf
    /\ context' = EmptyContext
    /\ localStore' = NoAnswers
    /\ json' = NoManifest
    /\ offered' = NotAsked
    /\ inflight' = NoCall
    /\ installs' = <<>>
    /\ log' = <<>>
    /\ written' = {}
    /\ keyAns' = Undef
    /\ UNCHANGED <<variant, dest, files, config, lastAns, probe>>

\* --------------------------------------------------------- the generator

\* What the run loop's input is drawn from in the whole-run specification:
\* the resolver's sources each answer one way besides the failure that ends
\* the run; SpecResolver draws them widely.
RunDests == {DestRoot, DestA}
RunGit == {GitNoUser, GitFull}
RunNpm == {NpmFull}
RunManifests == {NoManifest}

\* The operator's files the destination directory may hold before the first
\* run: none, any one of them, or all of them.
OperatorPaths ==
    {Path("README.md"), Path("AUTHORS"), Path("index.js"), Path("LICENSE"),
     Path("test/setup.js"), TestPath(<<"a">>)}
OperatorFiles ==
    {UserFiles({}), UserFiles(OperatorPaths)} \cup {UserFiles({p}) : p \in OperatorPaths}

Init == \E v \in Variants, d \in RunDests, fs \in OperatorFiles : InitIn(v, d, fs)

Next ==
    \/ Default
    \/ Dir
    \/ GitConfig(RunGit)
    \/ NpmConfig(RunNpm)
    \/ PackageJson(RunManifests)
    \/ Context
    \/ Author
    \/ AppGeneral
    \/ OldGeneral
    \/ GenNpmKey
    \/ EncryptCallback
    \/ LocalStore
    \/ AppLicense
    \/ OldLicense
    \/ OldReadme
    \/ Editorconfig
    \/ Ack
    \/ ConfJshint
    \/ ConfJscs
    \/ ConfGulp
    \/ ConfKarma
    \/ ConfMocha
    \/ ConfIstanbul
    \/ ConfNpm
    \/ ConfGit
    \/ Travis
    \/ AppReadme
    \/ AppAuthors
    \/ AppMain
    \/ AppTest
    \/ OldMain
    \/ OldTest
    \/ InstallPromises
    \/ InstallIstanbul
    \/ InstallMocha
    \/ AppInstallChai
    \/ OldInstallChai
    \/ InstallJshint
    \/ InstallJscs
    \/ Precommit
    \/ MkdirpCallback
    \/ InstallGulp
    \/ InstallKarma
    \/ NewRun

Spec == Init /\ [][Next]_vars

\* ------------------------------------- the Context Resolver on its own

ResolverDests == {DestRoot, DestA}

InitResolver == \E v \in Variants, d \in ResolverDests : InitIn(v, d, NoFiles)

NextResolver ==
    \/ Default
    \/ Dir
    \/ GitConfig(GitOutcomes)
    \/ NpmConfig(NpmOutcomes)
    \/ PackageJson(Manifests)
    \/ Context
    \/ Author

SpecResolver == InitResolver /\ [][NextResolver]_vars

\* ------------------------------------------- the name derivation on its own

\* The characters the free part of a library name is drawn from.
NameChars == {"a", "j", "s", "-", ".", "_"}
\* The names x the derivation is applied to: a free part, after "node-" or not.
NameInputs ==
    {p \o t : p \in {<<>>, S_node, <<"n", "o", "d", "e">>},
              t \in BSeq(NameChars, MaxNameLen)}

\* The library name answered for x in each form.
LibNameOfForm(form, x) ==
    CASE form = "node-x" -> S_node \o x
      [] form = "x.js" -> x \o S_dotjs
      [] form = "x-js" -> x \o S_dashjs
      [] OTHER -> x
NameForms == {"node-x", "x.js", "x-js", "x"}

NamesStart(x) ==
    /\ variant \in Variants
    /\ pc = "names"
    /\ run = 1
    /\ dest = DestA
    /\ files = NoFiles
    /\ before = NoFiles
    /\ config = EmptyConfig
    /\ conf = DefaultConf
    /\ context = ContextOfConf(DefaultConf)
    /\ localStore = NoAnswers
    /\ json = NoManifest
    /\ offered = NotAsked
    /\ inflight = NoCall
    /\ installs = <<>>
    /\ log = <<>>
    /\ written = {}
    /\ lastAns = NoAnswers
    /\ probe = [NoProbe EXCEPT !.x = x]
    /\ keyAns = Undef

\* The callback of the general prompt derives the names from the answer
\* libName, the same statements in both variants.
DeriveNames ==
    /\ pc = "names"
    /\ probe.form = "none"
    /\ \E form \in NameForms :
         LET libName == LibNameOfForm(form, probe.x)
         IN  /\ context' = WithNames(context, libName)
             /\ probe' = [form |-> form, x |-> probe.x, libName |-> libName,
                          packageName |-> Val(context'.packageName),
                          varName |-> Val(context'.varName)]
    /\ UNCHANGED <<variant, pc, run, dest, files, before, config, conf,
                   localStore, json, offered, inflight, installs, log,
                   written, lastAns, keyAns>>

InitNames == \E x \in NameInputs : NamesStart(x)

SpecNames == InitNames /\ [][DeriveNames]_vars

\* ====================================================================
\* The claims
\* ====================================================================

Derived == probe.form # "none"
PrefixOrSuffixForm == probe.form \in {"node-x", "x.js", "x-js"}

\* C1 as stated: for every non-empty x, a libName answer node-x, x.js or
\* x-js yields packageName = x.
C1_AsStated ==
    Derived /\ PrefixOrSuffixForm /\ probe.x # <<>>
        => Val(context.packageName) = probe.x

\* C1, amended: for every non-empty x, the answer node-x yields packageName
\* = x exactly when x does not itself end in "js", and the answers x.js and
\* x-js yield packageName = x exactly when the answer does not start with
\* "node-"; in the other cases the derivation removes more than the one
\* prefix or suffix the answer was built with.
C1_PackageNameOfForms ==
    Derived /\ probe.x # <<>> =>
        /\ probe.form = "node-x" =>
             ((Val(context.packageName) = probe.x) <=> ~HasSuffix(probe.x, S_js))
        /\ probe.form \in {"x.js", "x-js"} =>
             ((Val(context.packageName) = probe.x)
                 <=> ~HasPrefix(probe.libName, S_node))

\* C1's case: a name with a prefix of its own, answered with a suffix, and
\* the derivation has removed both.
C1_Witness ==
    /\ Derived /\ probe.form = "x.js"
    /\ probe.x = S_node \o <<"a">>
    /\ Val(context.packageName) = <<"a">>

\* What C2 says varName is: packageName without its separators, each
\* character that followed a separator upper-cased.
RECURSIVE C2_CamelCaseFrom(_, _)
C2_CamelCaseFrom(s, i) ==
    IF i > Len(s) THEN <<>>
    ELSE IF s[i] \in Separators THEN C2_CamelCaseFrom(s, i + 1)
    ELSE <<IF i > 1 /\ s[i - 1] \in Separators THEN ToUpperCase(s[i]) ELSE s[i]>>
            \o C2_CamelCaseFrom(s, i + 1)

\* C2: for every packageName, varName is packageName with every separator
\* removed and the character after each upper-cased, so varName holds no
\* separator.
C2_VarNameCamelCase ==
    Derived =>
        /\ Val(context.varName) = C2_CamelCaseFrom(Val(context.packageName), 1)
        /\ \A i \in 1..Len(Val(context.varName)) :
              Val(context.varName)[i] \notin Separators

\* ---------------------------------------------------- the Context Resolver

ResolverSteps ==
    {"initializing.default", "initializing.dir", "initializing.gitConfig",
     "initializing.npmConfig", "initializing.packageJson"}
\* initializing.packageJson has run in this run.
PackageJsonRead == pc \notin ResolverSteps \cup {"crashed", "names"}

AuthorObject == json.kind = "json" /\ json.author.t = "object"
AuthorAsked == IsDef(offered.authorName)

\* C3 as stated: with an author object that has name, email and url, the
\* resolved name, email and url are the manifest's.
C3_AsStated ==
    PackageJsonRead /\ AuthorObject /\ IsDef(json.author.name)
            /\ IsDef(json.author.email) /\ IsDef(json.author.url)
        => /\ conf.name = json.author.name
           /\ conf.email = json.author.email
           /\ conf.url = json.author.url

\* C3, amended: with an author object, each of name, email and url that the
\* manifest gives a non-empty value is resolved to that value, whatever git
\* and npm returned, and the author questions are asked with the resolved
\* values as their defaults.
C3_ManifestAuthorWins ==
    PackageJsonRead /\ AuthorObject =>
        /\ \A f \in {"name", "email", "url"} :
              IsDef(json.author[f]) /\ Val(json.author[f]) # ""
                  => conf[f] = json.author[f]
        /\ AuthorAsked =>
              /\ Val(offered.authorName) = conf.name
              /\ Val(offered.authorEmail) = conf.email
              /\ Val(offered.authorUrl) = conf.url

\* C3's case: npm gave an identity (so it gave the key too), the manifest
\* another one, and the author questions are asked with the manifest's.
C3_Witness ==
    /\ AuthorAsked /\ AuthorObject
    /\ IsDef(conf.npmKey)
    /\ json.author.name = Some("Pkg Name")
    /\ Val(offered.authorName) = Some("Pkg Name")
    /\ Val(offered.authorEmail) = Some("pkg@x")
    /\ Val(offered.authorUrl) = Some("http://pkg")

\* C8: initializing always completes, whatever its sources answer, and the
\* configuration keeps main = index.js and version = 0.0.0 unless the
\* manifest replaced them.
C8_InitializingNeverFatal ==
    /\ pc # "crashed"
    /\ PackageJsonRead =>
          /\ conf.main \in {Some("index.js"), json.main}
          /\ conf.version \in {Some("0.0.0"), json.version}

\* ------------------------------------------------- the Dependency Installer

Installs(pkg, kind) ==
    \E i \in 1..Len(installs) :
        /\ installs[i].kind = kind
        /\ \E k \in 1..Len(installs[i].pkgs) : installs[i].pkgs[k] = pkg
Mentions(pkg) == Installs(pkg, "save") \/ Installs(pkg, "saveDev")

\* C4: at the end of a run of src/app/index.js, with promises the
\* invocations hold bluebird as a dependency and chai-as-promised as a
\* development dependency, without promises neither is in any invocation;
\* every other invocation is a development one.
C4_PromisesInstalls ==
    variant = "app" /\ pc = "end" =>
        /\ Val(context.promises) =>
              /\ Installs("bluebird", "save") /\ ~Installs("bluebird", "saveDev")
              /\ Installs("chai-as-promised", "saveDev")
              /\ ~Installs("chai-as-promised", "save")
        /\ ~Val(context.promises) =>
              ~Mentions("bluebird") /\ ~Mentions("chai-as-promised")
        /\ \A i \in 1..Len(installs) :
              installs[i].kind = "saveDev" \/ installs[i].pkgs = <<"bluebird">>

\* C4's case: a run with promises has ended, with bluebird installed as a
\* dependency and the tools as development dependencies.
C4_Witness ==
    /\ variant = "app" /\ pc = "end"
    /\ Val(context.promises)
    /\ Installs("bluebird", "save") /\ Installs("chai-as-promised", "saveDev")
    /\ Installs("pre-commit", "saveDev")

\* ------------------------------------------------- the Template Materializer

WrittenThisRun(path) ==
    /\ Exists(files, path)
    /\ files[path].kind \in {"copied", "rendered"}
    /\ files[path].gen = run
Kept(path) == Exists(files, path) /\ files[path] = before[path]

\* C5: in src/app/index.js a README.md that exists when a run starts has
\* the same content throughout and after the run, and LICENSE, NOTICE and
\* .travis.yml are written by every run that ends, whether they existed
\* or not.
C5_ReadmeKeptOthersWritten ==
    variant = "app" =>
        /\ Exists(before, Path("README.md")) => Kept(Path("README.md"))
        /\ pc = "end" =>
              /\ WrittenThisRun(Path("LICENSE"))
              /\ WrittenThisRun(Path("NOTICE"))
              /\ WrittenThisRun(Path(".travis.yml"))

\* C5's case: a second run has ended in a directory where the first run
\* found the operator's README.md and LICENSE.
C5_Witness ==
    /\ variant = "app" /\ pc = "end" /\ run = 2
    /\ Exists(before, Path("README.md"))
    /\ files[Path("README.md")] = UserContent
    /\ Exists(before, Path("LICENSE")) /\ before[Path("LICENSE")].gen = 1
    /\ files[Path("LICENSE")].gen = 2

\* The files the spec gives the skip-if-exists policy, as far as this run
\* has fixed their paths.
SkipIfExistsPaths ==
    {Path("README.md"), Path("AUTHORS")}
        \cup (IF IsDef(context.main) THEN {Path(Val(context.main))} ELSE {})
        \cup (IF IsDef(context.packageName)
              THEN {TestPath(Val(context.packageName))} ELSE {})

\* C9: in src/unnamed/part_000 a README.md, AUTHORS, main entry file or
\* test/<packageName>.test.js that exists when a run starts keeps its
\* content.
C9_OldKeepsExisting ==
    variant = "old" =>
        \A p \in SkipIfExistsPaths : Exists(before, p) => Kept(p)

\* ---------------------------------------------------- the Secret Provisioner

Base64Index(c) == CHOOSE k \in 0..63 : Base64Alphabet[k + 1] = c
IsBase64Char(c) == \E k \in 0..63 : Base64Alphabet[k + 1] = c

\* The bytes a base64 text stands for: each group of four characters
\* stands for three bytes, fewer when the group ends in "=".
RECURSIVE Base64Decode(_)
Base64Decode(t) ==
    IF Len(t) < 4 THEN <<>>
    ELSE LET v(i) == IF t[i] = "=" THEN 0 ELSE Base64Index(t[i])
             b1 == v(1) * 4 + v(2) \div 16
             b2 == (v(2) % 16) * 16 + v(3) \div 4
             b3 == (v(3) % 4) * 64 + v(4)
         IN  (IF t[3] = "=" THEN <<b1>>
              ELSE IF t[4] = "=" THEN <<b1, b2>>
              ELSE <<b1, b2, b3>>) \o Base64Decode(SubSeq(t, 5, Len(t)))

IsBase64Of(t, str) ==
    /\ Len(t) = 4 * ((Len(str) + 2) \div 3)
    /\ \A i \in 1..Len(t) :
          IsBase64Char(t[i]) \/ (t[i] = "=" /\ i > Len(t) - 2)
    /\ Base64Decode(t) = [i \in 1..Len(str) |-> CharCode(str[i])]

EncryptPending == inflight.state = "pending"

\* C6: the plaintext of every encrypt() call is the base64 text of the
\* credential entered when that holds a ":", and the credential itself
\* when it holds none.
C6_PlaintextOfCredential ==
    EncryptPending =>
        IF \E i \in 1..Len(inflight.raw) : inflight.raw[i] = ":"
        THEN IsBase64Of(inflight.plain, inflight.raw)
        ELSE inflight.plain = inflight.raw

\* C6's case: "a:a" was entered and encrypt() was called with "YTph".
C6_Witness ==
    /\ EncryptPending
    /\ inflight.raw = <<"a", ":", "a">>
    /\ inflight.plain = <<"Y", "T", "p", "h">>

ProvisionerSteps == {"prompting.genNpmKey", "prompting.genNpmKey.encrypt"}

\* What a step of the Secret Provisioner does to the stored key.
ProvisionerStep ==
    pc \in ProvisionerSteps =>
        /\ config'.travisNpmKey # config.travisNpmKey => inflight'.state = "ok"
        /\ inflight'.state = "ok" =>
              /\ pc = "prompting.genNpmKey.encrypt"
              /\ inflight'.blob \in Blobs
              /\ config'.travisNpmKey = Some(inflight'.blob)
        /\ inflight'.state = "failed" =>
              /\ pc = "prompting.genNpmKey.encrypt"
              /\ config'.travisNpmKey = config.travisNpmKey
              /\ log' = Append(log, "encrypt")
        /\ inflight'.state = "none" => config' = config /\ log' = log
        /\ \/ pc' = StepAfter(variant, "prompting.genNpmKey")
           \/ pc = "prompting.genNpmKey" /\ inflight'.state = "pending"

\* C7: in a step of the Secret Provisioner the stored travisNpmKey changes
\* only as the encryption succeeds, and then to the ciphertext returned; as
\* it fails the error is logged and the key stays; with no credential there
\* is no call and the key stays; and the step completes, here or in the
\* callback it waits for.
C7_KeyChangesOnlyOnSuccess == [][ProvisionerStep]_vars

\* C7's case: a regeneration failed and the key stored by an earlier run
\* is still there as the run goes on.
C7_Witness ==
    /\ inflight.state = "failed"
    /\ KeyStored(config)
    /\ pc = StepAfter(variant, "prompting.genNpmKey")

\* ----------------------------------------------------- the Prompt Sequencer

GeneralAsked == IsDef(offered.libName)
\* An earlier run passed configuring.localStore, this one has asked the
\* general questions and not yet stored its own answers.
AskedAfterStoredRun ==
    /\ variant = "app" /\ GeneralAsked /\ IsDef(lastAns.libName)
    /\ pc \in ProvisionerSteps \cup {"configuring.localStore"}

\* C10: in src/app/index.js each general question of a run is asked with
\* the answer the last run that completed configuring got for it, a false
\* one too.
C10_StoredAnswersOffered ==
    AskedAfterStoredRun =>
        \A k \in GeneralKeys : Val(offered[k]) = lastAns[k]

\* C10's case: the flags are offered as the earlier run answered them,
\* against their hard-coded defaults, and the name as typed, against the
\* directory's.
C10_Witness ==
    /\ AskedAfterStoredRun
    /\ Val(offered.browser) = Some(FALSE) /\ Val(offered.promises) = Some(FALSE)
    /\ Val(offered.gulpfile) = Some(TRUE)
    /\ Val(offered.libName) = Some(TypedLibName) /\ conf.libName # Some(TypedLibName)

\* -------------------------------------------------- the Stored Preferences

\* A step sets a general key of this.config only while the key holds no
\* value.
C11_WritesOnlyUnrecorded ==
    \A k \in GeneralKeys :
        k \in written' /\ k \notin written => ~IsDef(config[k])

\* C11: in any run, a key of Stored Preferences among libName, libDesc,
\* copyrightYear, gulpfile, browser and promises that already holds a value
\* from an earlier run is not written again by that run.
C11_StoredKeysNotRewritten == [][C11_WritesOnlyUnrecorded]_vars

\* ------------------------------------------- the questions of the provisioner

\* What the step that asks the questions of prompting.genNpmKey does, given
\* the Stored Preferences it starts from.
C12_AskStep ==
    pc = "prompting.genNpmKey" /\ pc' # pc =>
        /\ IsDef(offered'.genNpmKey) => KeyStored(config)
        /\ IsDef(offered'.npmApiKey) =>
              keyAns' = Some(TRUE) \/ ~KeyStored(config)
        /\ inflight'.state = "pending" =>
              keyAns' = Some(TRUE) \/ ~KeyStored(config)

\* C12: the genNpmKey question is asked only if a travisNpmKey is stored,
\* the npmApiKey question only if regeneration was confirmed or none is
\* stored, and encrypt() is called only in one of these two cases.
C12_QuestionsAskedWhen == [][C12_AskStep]_vars

\* C12's case: with a key stored by an earlier run the operator declined to
\* regenerate, npmApiKey was not asked, encrypt() was not called and the run
\* has ended.
C12_Witness ==
    /\ run = 2 /\ pc = "end"
    /\ IsDef(offered.genNpmKey) /\ keyAns = Some(FALSE)
    /\ ~IsDef(offered.npmApiKey)
    /\ inflight.state = "none"
    /\ KeyStored(config)

\* ------------------------------------------------- the fields of the manifest

\* C13: for every parseable package.json, each of version, main and
\* description that the manifest declares is the resolved version, main and
\* libDesc after initializing.packageJson, whatever its author and its
\* repository are.
C13_DeclaredFieldsResolved ==
    PackageJsonRead /\ json.kind = "json" =>
        /\ IsDef(json.version) => conf.version = json.version
        /\ IsDef(json.main) => conf.main = json.main
        /\ IsDef(json.description) => conf.libDesc = json.description

\* ------------------------------------------------ the key in .travis.yml

TravisYml == Path(".travis.yml")
\* .travis.yml as an earlier run of the generator rendered it.
RenderedBefore ==
    Exists(before, TravisYml) /\ before[TravisYml].kind = "rendered"

\* C14: encrypt() awaits its callback only while the run is at
\* prompting.genNpmKey, so no configuring step starts before the callback
\* has completed; and the travisNpmKey in the .travis.yml a run has rendered
\* is the stored one: the ciphertext returned in this run when the
\* encryption succeeded, and otherwise the key no step of this run has
\* set, the one the .travis.yml of the earlier run was rendered with.
C14_TravisKeyAfterProvisioning ==
    /\ EncryptPending <=> pc = "prompting.genNpmKey.encrypt"
    /\ WrittenThisRun(TravisYml) =>
          /\ files[TravisYml].key = config.travisNpmKey
          /\ inflight.state = "ok" => files[TravisYml].key = Some(inflight.blob)
          /\ inflight.state # "ok" =>
                /\ "travisNpmKey" \notin written
                /\ RenderedBefore => files[TravisYml].key = before[TravisYml].key
                /\ run = 1 => files[TravisYml].key = Undef

\* C14's case: the second run regenerated the key, and its .travis.yml
\* holds the new ciphertext, not the one of the first run.
C14_Witness ==
    /\ run = 2 /\ pc = "end"
    /\ inflight.state = "ok" /\ inflight.blob = "blob2"
    /\ RenderedBefore /\ before[TravisYml].key = Some("blob1")
    /\ WrittenThisRun(TravisYml) /\ files[TravisYml].key = Some("blob2")

\* ---------------------------------------------------- the pre-commit hook

\* The invocations of this run that install pre-commit.
PreCommitInstalls ==
    {i \in 1..Len(installs) :
        \E k \in 1..Len(installs[i].pkgs) : installs[i].pkgs[k] = "pre-commit"}
\* The run has left install.precommit: done() was called.
PastPrecommit == pc \in {"install.gulp", "install.karma", "end"}
\* mkdirp() has called back: the directory is there, or the error is logged.
MkdirpCompleted ==
    Exists(files, HooksDir) \/ \E i \in 1..Len(log) : log[i] = "mkdirp"

\* C15: in src/app/index.js the run has issued no installation of
\* pre-commit until install.precommit is left and exactly one from then on,
\* a development one; it is issued after mkdirp() has called back, with the
\* directory created or the failure logged; and the step is left, by the
\* one call of done(), with the invocation issued.
C15_PrecommitOnceAfterMkdirp ==
    variant = "app" =>
        /\ Cardinality(PreCommitInstalls) = IF PastPrecommit THEN 1 ELSE 0
        /\ \A i \in PreCommitInstalls :
              installs[i] = [pkgs |-> <<"pre-commit">>, kind |-> "saveDev"]
        /\ PastPrecommit => MkdirpCompleted

\* C15's case: the hooks directory could not be created, the failure is
\* logged, pre-commit is installed and the next step is about to start.
C15_Witness ==
    /\ variant = "app" /\ pc = "install.gulp"
    /\ ~Exists(files, HooksDir)
    /\ Len(log) > 0 /\ log[Len(log)] = "mkdirp"
    /\ Cardinality(PreCommitInstalls) = 1

\* ------------------------------------------------------- the test harness

\* test/<packageName>.test.js and test/setup.js of a run that has ended.
HarnessPaths == {TestPath(Val(context.packageName)), Path("test/setup.js")}

\* C16: in src/app/index.js, as a run ends, each of the two test harness
\* files that was there when the run started has kept its content and each
\* that was not has been created by the run.
C16_HarnessFilesEachIfAbsent ==
    variant = "app" /\ pc = "end" =>
        \A p \in HarnessPaths :
            IF Exists(before, p) THEN Kept(p) ELSE WrittenThisRun(p)

====
